---- MODULE Spec2Model ----
(***************************************************************************)
(* Model of the two scripts of the repository:                             *)
(*   scripts/convert_pincodes.py  - CSV -> JSON converter (main)           *)
(*   server/decrypt_pdf.py        - pikepdf wrapper (__main__)             *)
(* Python strings are sequences of one-character strings, so that          *)
(* str.strip() and str(None) are computed and not assumed.  A CSV cell is  *)
(* None or Str(s); a row is a function from the header names present in    *)
(* the file to cells (csv.DictReader).  A JSON file is modelled by the     *)
(* value json.dump was given.                                              *)
(***************************************************************************)
EXTENDS Integers, Sequences, FiniteSets, TLC

\* ---------------------------------------------------------------- bounds
MaxRows == 2
MaxBankRows == 2
MaxArgc == 5

\* ------------------------------------------------------- Python values
None == [t |-> "NoneType"]
Str(s) == [t |-> "str", v |-> s]
Whitespace == {" ", "\t"}

\* truth value of a cell: None and '' are falsy
Truthy(x) == IF x = None THEN FALSE ELSE x.v # <<>>

\* Python's `a or b`
Or(a, b) == IF Truthy(a) THEN a ELSE b

\* dict.get(key): None when the key is absent
get(row, key) == IF key \in DOMAIN row THEN row[key] ELSE None

RECURSIVE lstrip(_)
lstrip(s) == IF s = <<>> THEN s
             ELSE IF Head(s) \in Whitespace THEN lstrip(Tail(s)) ELSE s

RECURSIVE rstrip(_)
rstrip(s) == IF s = <<>> THEN s
             ELSE IF s[Len(s)] \in Whitespace THEN rstrip(SubSeq(s, 1, Len(s) - 1)) ELSE s

\* str.strip()
strip(s) == rstrip(lstrip(s))

\* str(x) for a cell: str(None) is the four characters 'None'
str(x) == IF x = None THEN <<"N", "o", "n", "e">> ELSE x.v

\* ------------------------------------------------------ normalize_record
\* mutant: the 'PinCode' spelling is forgotten
PinOrChainNoPinCode(row) ==
    Or(Or(get(row, "pincode"), get(row, "PINCODE")), get(row, "Pincode"))

PinOrChain(row) ==
    Or(Or(Or(get(row, "pincode"), get(row, "PINCODE")), get(row, "Pincode")), get(row, "PinCode"))

OfficeOrChain(row) ==
    Or(Or(Or(Or(Or(get(row, "officeName"), get(row, "OFFICENAME")), get(row, "OfficeName")),
             get(row, "office")), get(row, "Office")), Str(<<>>))

DistrictOrChain(row) ==
    Or(Or(Or(get(row, "district"), get(row, "DISTRICT")), get(row, "District")), Str(<<>>))

StateOrChain(row) ==
    Or(Or(Or(get(row, "state"), get(row, "STATE")), get(row, "State")), Str(<<>>))

normalize_record(row) ==
    [pincode    |-> strip(str(PinOrChain(row))),
     officeName |-> strip(OfficeOrChain(row).v),
     district   |-> strip(DistrictOrChain(row).v),
     state      |-> strip(StateOrChain(row).v)]

\* ------------------------------------------------------ bank row fields
BankPin(b) ==
    strip(Or(Or(Or(Or(get(b, "pincode"), get(b, "PINCODE")), get(b, "Pincode")),
                get(b, "PinCode")), Str(<<>>)).v)

BankName(b) ==
    strip(Or(Or(Or(get(b, "bank"), get(b, "Bank")), get(b, "BANK")), Str(<<>>)).v)

BankStatus(b) ==
    strip(Or(Or(Or(get(b, "status"), get(b, "Status")), get(b, "STATUS")), Str(<<>>)).v)

\* mutant: dict.setdefault(key, value), the first value stays
DictSetKeepFirst(d, k, val) ==
    [x \in (DOMAIN d) \cup {k} |-> IF x \in DOMAIN d THEN d[x] ELSE val]

\* dict[key] = value
DictSet(d, k, val) == [x \in (DOMAIN d) \cup {k} |-> IF x = k THEN val ELSE d[x]]

\* mutant: dict[key] = [value], earlier entries of the key are lost
SetDefaultOverwrite(d, k, val) == DictSet(d, k, <<val>>)

\* dict.setdefault(key, []).append(value)
SetDefaultAppend(d, k, val) ==
    DictSet(d, k, Append(IF k \in DOMAIN d THEN d[k] ELSE <<>>, val))

EmptyDict == [x \in {} |-> None]


\* ------------------------------------------------------------ inputs
C(s) == Str(s)

\* pincode columns of a postal-code row
PinNone    == [h \in {} |-> None]
PinEmpty   == ("pincode" :> C(<<>>))
PinBlank   == ("pincode" :> C(<<" ">>))
PinPlain   == ("pincode" :> C(<<"1">>))
PinUpper   == ("PINCODE" :> C(<<" ", "1">>))
PinBlankThenUpper == ("pincode" :> C(<<" ">>)) @@ ("PINCODE" :> C(<<"1">>))
PinEmptyThenLast  == ("pincode" :> C(<<>>)) @@ ("PinCode" :> C(<<"2", " ">>))
PinLastEmpty      == ("PinCode" :> C(<<>>))

\* the other columns of a postal-code row
RestNone  == [h \in {} |-> None]
RestPlain == ("officeName" :> C(<<"A", " ">>)) @@ ("district" :> C(<<"D">>)) @@ ("state" :> C(<<"S">>))
RestMixed == ("OFFICENAME" :> C(<<>>)) @@ ("office" :> C(<<"B">>)) @@ ("district" :> C(<<" ">>))
             @@ ("District" :> C(<<"E">>)) @@ ("STATE" :> C(<<"\t", "T">>)) @@ ("State" :> None)

PinRowSet ==
    { PinNone @@ RestPlain, PinEmpty @@ RestPlain, PinBlank @@ RestNone,
      PinPlain @@ RestPlain, PinPlain @@ RestMixed, PinUpper @@ RestMixed,
      PinBlankThenUpper @@ RestPlain, PinEmptyThenLast @@ RestMixed,
      PinLastEmpty @@ RestPlain }

BankRowSet ==
    { ("pincode" :> C(<<"1">>)) @@ ("bank" :> C(<<"X">>)) @@ ("status" :> C(<<"s">>)),
      ("PINCODE" :> C(<<"1", " ">>)) @@ ("Bank" :> C(<<"Y", " ">>)) @@ ("STATUS" :> C(<<"p">>)),
      ("Pincode" :> C(<<"1">>)) @@ ("bank" :> C(<<>>)) @@ ("BANK" :> C(<<"X">>)) @@ ("Status" :> C(<<" ", "s">>)),
      ("PinCode" :> C(<<"2">>)) @@ ("bank" :> C(<<"X">>)),
      ("pincode" :> C(<<>>)) @@ ("Pincode" :> C(<<"2">>)) @@ ("bank" :> C(<<"Y">>)) @@ ("status" :> C(<<"p">>)),
      ("bank" :> C(<<"X">>)) @@ ("status" :> C(<<"s">>)),
      ("pincode" :> C(<<>>)) @@ ("bank" :> C(<<"Y">>)) @@ ("status" :> C(<<"n">>)),
      ("pincode" :> C(<<" ">>)) @@ ("PINCODE" :> C(<<"1">>)) @@ ("bank" :> C(<<"X">>)),
      ("pincode" :> None) @@ ("bank" :> C(<<"Y">>)) }

SeqsUpTo(S, n) == UNION { [1..k -> S] : k \in 0..n }

Missing == [kind |-> "missing"]
Undecodable == [kind |-> "undecodable"]
Table(rs) == [kind |-> "table", rows |-> rs]

PinTables  == { Table(rs) : rs \in SeqsUpTo(PinRowSet, MaxRows) }
BankTables == { Table(rs) : rs \in SeqsUpTo(BankRowSet, MaxBankRows) }
SmallPinTables  == { Table(<<>>), Table(<<PinPlain @@ RestPlain, PinBlank @@ RestNone>>) }
SmallBankTables == { Table(<<>>), Table(<<("pincode" :> C(<<"1">>)) @@ ("bank" :> C(<<"X">>)),
                                             ("bank" :> C(<<"Y">>))>>) }

OutNames == {"pincodes.json", "index.json", "bank_serviceability.json"}
Absent == [st |-> "absent"]
Stale == [st |-> "stale"]
Truncated == [st |-> "partial"]
Complete(d) == [st |-> "complete", data |-> d]

\* ------------------------------------------------------------- state
\* convert_pincodes.py
VARIABLES argv, fs, outdir, outfiles, openFiles, fileops, pc, exit_status,
          stdout, stderr, rows, i, records, index, bank_rows, j, bank_map

\* decrypt_pdf.py
VARIABLES pdf_argc, pdf_installed, pdf_input_exists, pdf_output, pdf_pc, pdf_exit,
          pdf_stdout, pdf_calls, success

convvars == <<argv, fs, outdir, outfiles, openFiles, fileops, pc, exit_status,
              stdout, stderr, rows, i, records, index, bank_rows, j, bank_map>>

pdfvars == <<pdf_argc, pdf_installed, pdf_input_exists, pdf_output, pdf_pc, pdf_exit,
             pdf_stdout, pdf_calls, success>>

vars == <<convvars, pdfvars>>

\* decrypt_pdf.py before it runs
InitPdfProcess ==
    /\ pdf_pc = "import"
    /\ pdf_exit = -1             \* no exit status yet
    /\ pdf_stdout = <<>>
    /\ pdf_calls = <<>>
    /\ success = FALSE           \* not assigned yet

InitPdfEnv(argcs) ==
    /\ pdf_argc \in argcs
    /\ pdf_installed \in BOOLEAN
    /\ pdf_input_exists \in BOOLEAN
    /\ pdf_output \in {Absent, Stale}

\* the process before main() runs; the environment is what Init chooses
InitProcess ==
    /\ openFiles = {}
    /\ fileops = <<>>
    /\ pc = "parse_args"
    /\ exit_status = -1          \* no exit status yet
    /\ stdout = <<>>
    /\ stderr = <<>>
    /\ rows = <<>>
    /\ i = 1
    /\ records = <<>>
    /\ index = EmptyDict
    /\ bank_rows = <<>>
    /\ j = 1
    /\ bank_map = EmptyDict

InitEnv(pins, banks) ==
    /\ argv \in {{}, {"--bankcsv"}, {"--pincsv"}, {"--pincsv", "--bankcsv"}}
    /\ fs \in [pincsv : IF "--pincsv" \in argv THEN pins \cup {Missing, Undecodable} ELSE {Missing},
               bankcsv : IF argv = {"--pincsv", "--bankcsv"}
                         THEN banks \cup {Missing, Undecodable} ELSE {Missing}]
    /\ outdir \in {"absent", "present"}
    /\ outfiles \in { [n \in OutNames |-> c] : c \in IF outdir = "present" THEN {Absent, Stale} ELSE {Absent} }

\* decrypt_pdf.py is not run
InitPdfIdle ==
    /\ InitPdfProcess
    /\ pdf_argc = 4 /\ pdf_installed = TRUE /\ pdf_input_exists = TRUE /\ pdf_output = Absent

Init == InitProcess /\ InitEnv(PinTables, SmallBankTables) /\ InitPdfIdle

InitBank == InitProcess /\ InitEnv(SmallPinTables, BankTables) /\ InitPdfIdle

\* mutant: the exception is caught and reported, and the process exits normally
RaiseSwallowed ==
    /\ pc' = "exited"
    /\ exit_status' = 0
    /\ stderr' = Append(stderr, "Traceback")

\* an uncaught exception: traceback on stderr, exit status 1
Raise ==
    /\ pc' = "exited"
    /\ exit_status' = 1
    /\ stderr' = Append(stderr, "Traceback")

\* ------------------------------------------------------------ main()
\* mutant: --pincsv is not required
ParseArgsNotRequired ==
    /\ pc = "parse_args"
    /\ pc' = "makedirs"
    /\ UNCHANGED pdfvars
    /\ UNCHANGED <<argv, fs, outdir, outfiles, openFiles, fileops, stdout, exit_status, stderr,
                   rows, i, records, index, bank_rows, j, bank_map>>

\* lines 37-41: argparse; --pincsv is required
ParseArgs ==
    /\ pc = "parse_args"
    /\ UNCHANGED pdfvars
    /\ IF "--pincsv" \in argv
       THEN /\ pc' = "makedirs"
            /\ UNCHANGED <<exit_status, stderr>>
       ELSE /\ pc' = "exited"
            /\ exit_status' = 2
            /\ stderr' = Append(stderr, "usage")
    /\ UNCHANGED <<argv, fs, outdir, outfiles, openFiles, fileops, stdout,
                   rows, i, records, index, bank_rows, j, bank_map>>

\* line 43: os.makedirs(outdir, exist_ok=True)
MakeDirs ==
    /\ pc = "makedirs"
    /\ UNCHANGED pdfvars
    /\ \/ /\ outdir' = "present"
          /\ pc' = "open_pincsv"
          /\ UNCHANGED <<exit_status, stderr>>
       \/ /\ outdir = "absent"
          /\ Raise
          /\ UNCHANGED outdir
    /\ UNCHANGED <<argv, fs, outfiles, openFiles, fileops, stdout,
                   rows, i, records, index, bank_rows, j, bank_map>>

\* read_csv line 22: open(path); FileNotFoundError when the path is missing
OpenCsv(name, msg, next) ==
    /\ stdout' = Append(stdout, msg)
    /\ IF fs[name] = Missing
       THEN /\ Raise
            /\ UNCHANGED <<openFiles, fileops>>
       ELSE /\ openFiles' = openFiles \cup {name}
            /\ fileops' = Append(fileops, <<"open", name>>)
            /\ pc' = next
            /\ UNCHANGED <<exit_status, stderr>>

\* mutant: the file is never closed
CloseFileLeak(name) ==
    /\ openFiles' = openFiles
    /\ fileops' = fileops

\* the file operations of a with-block's end: the file is closed
CloseFile(name) ==
    /\ openFiles' = openFiles \ {name}
    /\ fileops' = Append(fileops, <<"close", name>>)

\* lines 45-46
OpenPinCsv ==
    /\ pc = "open_pincsv"
    /\ UNCHANGED pdfvars
    /\ OpenCsv("pincsv", "Reading pincodes CSV", "read_pincsv")
    /\ UNCHANGED <<argv, fs, outdir, outfiles, rows, i, records, index, bank_rows, j, bank_map>>

\* read_csv lines 23-24, then lines 47-48
ReadPinCsv ==
    /\ pc = "read_pincsv"
    /\ UNCHANGED pdfvars
    /\ CloseFile("pincsv")
    /\ IF fs.pincsv.kind = "table"
       THEN /\ rows' = fs.pincsv.rows
            /\ records' = <<>>
            /\ index' = EmptyDict
            /\ i' = 1
            /\ pc' = "normalize_loop"
            /\ UNCHANGED <<exit_status, stderr>>
       ELSE /\ Raise
            /\ UNCHANGED <<rows, records, index, i>>
    /\ UNCHANGED <<argv, fs, outdir, outfiles, stdout, bank_rows, j, bank_map>>

\* lines 49-54: one iteration of the loop over rows
NormalizeRow ==
    /\ pc = "normalize_loop"
    /\ UNCHANGED pdfvars
    /\ i <= Len(rows)
    /\ LET rec == normalize_record(rows[i])
       IN IF rec.pincode = <<>>
          THEN UNCHANGED <<records, index>>
          ELSE /\ records' = Append(records, rec)
               /\ index' = DictSet(index, rec.pincode, rec)
    /\ i' = i + 1
    /\ UNCHANGED <<argv, fs, outdir, outfiles, openFiles, fileops, pc, exit_status,
                   stdout, stderr, rows, bank_rows, j, bank_map>>

\* line 49: the loop is exhausted
NormalizeDone ==
    /\ pc = "normalize_loop"
    /\ UNCHANGED pdfvars
    /\ i > Len(rows)
    /\ pc' = "open_pincodes.json"
    /\ UNCHANGED <<argv, fs, outdir, outfiles, openFiles, fileops, exit_status,
                   stdout, stderr, rows, i, records, index, bank_rows, j, bank_map>>

\* open(path, 'w'): truncates the file, or raises and leaves it alone
OpenOut(name, next) ==
    \/ /\ outfiles' = [outfiles EXCEPT ![name] = Truncated]
       /\ openFiles' = openFiles \cup {name}
       /\ fileops' = Append(fileops, <<"open", name>>)
       /\ pc' = next
       /\ UNCHANGED <<exit_status, stderr, stdout>>
    \/ /\ Raise
       /\ UNCHANGED <<outfiles, openFiles, fileops, stdout>>

\* mutant: a failed json.dump is ignored and the run goes on
DumpOutIgnoresError(name, data, msg, next) ==
    /\ CloseFile(name)
    /\ pc' = next
    /\ UNCHANGED <<exit_status, stderr>>
    /\ \/ /\ outfiles' = [outfiles EXCEPT ![name] = Complete(data)]
          /\ stdout' = Append(stdout, msg)
       \/ UNCHANGED <<outfiles, stdout>>

\* json.dump inside the with-block, the block's end, and the print after it
DumpOut(name, data, msg, next) ==
    /\ CloseFile(name)
    /\ \/ /\ outfiles' = [outfiles EXCEPT ![name] = Complete(data)]
          /\ stdout' = Append(stdout, msg)
          /\ pc' = next
          /\ UNCHANGED <<exit_status, stderr>>
       \/ /\ Raise
          /\ UNCHANGED <<outfiles, stdout>>

\* lines 56-57
OpenPincodesJson ==
    /\ pc = "open_pincodes.json"
    /\ UNCHANGED pdfvars
    /\ OpenOut("pincodes.json", "dump_pincodes.json")
    /\ UNCHANGED <<argv, fs, outdir, rows, i, records, index, bank_rows, j, bank_map>>

\* lines 58-59
DumpPincodesJson ==
    /\ pc = "dump_pincodes.json"
    /\ UNCHANGED pdfvars
    /\ DumpOut("pincodes.json", records, "Wrote pincodes.json", "open_index.json")
    /\ UNCHANGED <<argv, fs, outdir, rows, i, records, index, bank_rows, j, bank_map>>

\* lines 61-62
OpenIndexJson ==
    /\ pc = "open_index.json"
    /\ UNCHANGED pdfvars
    /\ OpenOut("index.json", "dump_index.json")
    /\ UNCHANGED <<argv, fs, outdir, rows, i, records, index, bank_rows, j, bank_map>>

\* mutant: the bank step runs whether or not --bankcsv was given
DumpIndexJsonThenBank ==
    /\ pc = "dump_index.json"
    /\ UNCHANGED pdfvars
    /\ DumpOut("index.json", index, "Wrote index.json", "open_bankcsv")
    /\ UNCHANGED <<argv, fs, outdir, rows, i, records, index, bank_rows, j, bank_map>>

\* lines 63-66
DumpIndexJson ==
    /\ pc = "dump_index.json"
    /\ UNCHANGED pdfvars
    /\ DumpOut("index.json", index, "Wrote index.json",
               IF "--bankcsv" \in argv THEN "open_bankcsv" ELSE "print_done")
    /\ UNCHANGED <<argv, fs, outdir, rows, i, records, index, bank_rows, j, bank_map>>

\* lines 67-68
OpenBankCsv ==
    /\ pc = "open_bankcsv"
    /\ UNCHANGED pdfvars
    /\ OpenCsv("bankcsv", "Reading bank serviceability CSV", "read_bankcsv")
    /\ UNCHANGED <<argv, fs, outdir, outfiles, rows, i, records, index, bank_rows, j, bank_map>>

\* read_csv lines 23-24, then line 69
ReadBankCsv ==
    /\ pc = "read_bankcsv"
    /\ UNCHANGED pdfvars
    /\ CloseFile("bankcsv")
    /\ IF fs.bankcsv.kind = "table"
       THEN /\ bank_rows' = fs.bankcsv.rows
            /\ bank_map' = EmptyDict
            /\ j' = 1
            /\ pc' = "bank_loop"
            /\ UNCHANGED <<exit_status, stderr>>
       ELSE /\ Raise
            /\ UNCHANGED <<bank_rows, bank_map, j>>
    /\ UNCHANGED <<argv, fs, outdir, outfiles, stdout, rows, i, records, index>>

\* lines 70-76: one iteration of the loop over bank_rows
BankRow ==
    /\ pc = "bank_loop"
    /\ UNCHANGED pdfvars
    /\ j <= Len(bank_rows)
    /\ LET b == bank_rows[j]
           p == BankPin(b)
       IN IF p = <<>>
          THEN UNCHANGED bank_map
          ELSE bank_map' = SetDefaultAppend(bank_map, p, [bank |-> BankName(b), status |-> BankStatus(b)])
    /\ j' = j + 1
    /\ UNCHANGED <<argv, fs, outdir, outfiles, openFiles, fileops, pc, exit_status,
                   stdout, stderr, rows, i, records, index, bank_rows>>

\* line 70: the loop is exhausted
BankDone ==
    /\ pc = "bank_loop"
    /\ UNCHANGED pdfvars
    /\ j > Len(bank_rows)
    /\ pc' = "open_bank_serviceability.json"
    /\ UNCHANGED <<argv, fs, outdir, outfiles, openFiles, fileops, exit_status,
                   stdout, stderr, rows, i, records, index, bank_rows, j, bank_map>>

\* lines 77-78
OpenBankJson ==
    /\ pc = "open_bank_serviceability.json"
    /\ UNCHANGED pdfvars
    /\ OpenOut("bank_serviceability.json", "dump_bank_serviceability.json")
    /\ UNCHANGED <<argv, fs, outdir, rows, i, records, index, bank_rows, j, bank_map>>

\* lines 79-80
DumpBankJson ==
    /\ pc = "dump_bank_serviceability.json"
    /\ UNCHANGED pdfvars
    /\ DumpOut("bank_serviceability.json", bank_map, "Wrote bank_serviceability.json", "print_done")
    /\ UNCHANGED <<argv, fs, outdir, rows, i, records, index, bank_rows, j, bank_map>>

\* line 82, and the return from main(): exit status 0
PrintDone ==
    /\ pc = "print_done"
    /\ UNCHANGED pdfvars
    /\ stdout' = Append(stdout, "Done.")
    /\ exit_status' = 0
    /\ pc' = "exited"
    /\ UNCHANGED <<argv, fs, outdir, outfiles, openFiles, fileops, stderr,
                   rows, i, records, index, bank_rows, j, bank_map>>

Next ==
    \/ ParseArgs
    \/ MakeDirs
    \/ OpenPinCsv
    \/ ReadPinCsv
    \/ NormalizeRow
    \/ NormalizeDone
    \/ OpenPincodesJson
    \/ DumpPincodesJson
    \/ OpenIndexJson
    \/ DumpIndexJson
    \/ OpenBankCsv
    \/ ReadBankCsv
    \/ BankRow
    \/ BankDone
    \/ OpenBankJson
    \/ DumpBankJson
    \/ PrintDone

Spec == Init /\ [][Next]_vars

SpecBank == InitBank /\ [][Next]_vars


\* ------------------------------------------------------ decrypt_pdf.py
\* sys.exit(1) after a diagnostic
PdfFail(msg) ==
    /\ pdf_stdout' = Append(pdf_stdout, msg)
    /\ pdf_exit' = 1
    /\ pdf_pc' = "exited"

\* lines 10-14: import pikepdf
ImportPikepdf ==
    /\ pdf_pc = "import"
    /\ IF pdf_installed
       THEN /\ pdf_pc' = "check_argc"
            /\ UNCHANGED <<pdf_stdout, pdf_exit>>
       ELSE PdfFail("ERROR: pikepdf not installed")
    /\ UNCHANGED <<pdf_argc, pdf_installed, pdf_input_exists, pdf_output, pdf_calls, success>>
    /\ UNCHANGED convvars

\* lines 31-33: len(sys.argv) != 4
CheckArgc ==
    /\ pdf_pc = "check_argc"
    /\ IF pdf_argc # 4
       THEN PdfFail("Usage")
       ELSE /\ pdf_pc' = "check_exists"
            /\ UNCHANGED <<pdf_stdout, pdf_exit>>
    /\ UNCHANGED <<pdf_argc, pdf_installed, pdf_input_exists, pdf_output, pdf_calls, success>>
    /\ UNCHANGED convvars

\* lines 35-41: os.path.exists(input_path)
CheckExists ==
    /\ pdf_pc = "check_exists"
    /\ IF ~pdf_input_exists
       THEN PdfFail("ERROR: Input file not found")
       ELSE /\ pdf_pc' = "open"
            /\ UNCHANGED <<pdf_stdout, pdf_exit>>
    /\ UNCHANGED <<pdf_argc, pdf_installed, pdf_input_exists, pdf_output, pdf_calls, success>>
    /\ UNCHANGED convvars

LibraryOutcomes == {"ok", "PasswordError", "Exception"}

\* lines 23-28: the except clauses of decrypt_pdf
Handle(outcome) ==
    /\ pdf_stdout' = Append(pdf_stdout, IF outcome = "PasswordError"
                                        THEN "ERROR: Incorrect password" ELSE "ERROR: exception")
    /\ success' = FALSE
    /\ pdf_pc' = "sys_exit"

\* line 19: pikepdf.open(input_path, password=password)
PdfOpen(outcome) ==
    /\ pdf_pc = "open"
    /\ pdf_calls' = Append(pdf_calls, <<"open", outcome>>)
    /\ IF outcome = "ok"
       THEN /\ pdf_pc' = "save"
            /\ UNCHANGED <<pdf_stdout, success>>
       ELSE Handle(outcome)
    /\ UNCHANGED <<pdf_argc, pdf_installed, pdf_input_exists, pdf_output, pdf_exit>>
    /\ UNCHANGED convvars

\* lines 20-22: pdf.save(output_path), the with-block's end, print, return True
PdfSave(outcome) ==
    /\ pdf_pc = "save"
    /\ pdf_calls' = Append(pdf_calls, <<"save", outcome>>)
    /\ IF outcome = "ok"
       THEN /\ pdf_output' = Complete("decrypted")
            /\ pdf_stdout' = Append(pdf_stdout, "SUCCESS")
            /\ success' = TRUE
            /\ pdf_pc' = "sys_exit"
       ELSE /\ Handle(outcome)
            /\ pdf_output' \in {pdf_output, Truncated}
    /\ UNCHANGED <<pdf_argc, pdf_installed, pdf_input_exists, pdf_exit>>
    /\ UNCHANGED convvars

\* mutant: sys.exit(0) whatever decrypt_pdf returned
SysExitZero ==
    /\ pdf_pc = "sys_exit"
    /\ pdf_exit' = 0
    /\ pdf_pc' = "exited"
    /\ UNCHANGED <<pdf_argc, pdf_installed, pdf_input_exists, pdf_output, pdf_stdout, pdf_calls, success>>
    /\ UNCHANGED convvars

\* line 44: sys.exit(0 if success else 1)
SysExit ==
    /\ pdf_pc = "sys_exit"
    /\ pdf_exit' = IF success THEN 0 ELSE 1
    /\ pdf_pc' = "exited"
    /\ UNCHANGED <<pdf_argc, pdf_installed, pdf_input_exists, pdf_output, pdf_stdout, pdf_calls, success>>
    /\ UNCHANGED convvars

NextPdf ==
    \/ ImportPikepdf
    \/ CheckArgc
    \/ CheckExists
    \/ \E outcome \in LibraryOutcomes : PdfOpen(outcome)
    \/ \E outcome \in LibraryOutcomes : PdfSave(outcome)
    \/ SysExit

InitPdf ==
    /\ InitPdfProcess /\ InitPdfEnv(1..MaxArgc)
    /\ InitProcess
    /\ argv = {} /\ fs = [pincsv |-> Missing, bankcsv |-> Missing]
    /\ outdir = "absent" /\ outfiles = [n \in OutNames |-> Absent]

SpecPdf == InitPdf /\ [][NextPdf]_vars


\* =====================================================================
\* Properties
\* =====================================================================
\* The documented column-name variants, in the documented order.
DocPinHeaders      == <<"pincode", "PINCODE", "Pincode", "PinCode">>
DocOfficeHeaders   == <<"officeName", "OFFICENAME", "OfficeName", "office", "Office">>
DocDistrictHeaders == <<"district", "DISTRICT", "District">>
DocStateHeaders    == <<"state", "STATE", "State">>
DocBankHeaders     == <<"bank", "Bank", "BANK">>
DocStatusHeaders   == <<"status", "Status", "STATUS">>

SetMin(S) == CHOOSE x \in S : \A y \in S : x <= y
SetMax(S) == CHOOSE x \in S : \A y \in S : x >= y

\* the text between the first and the last non-whitespace character
Trimmed(s) ==
    LET solid == {k \in 1..Len(s) : s[k] \notin Whitespace}
    IN IF solid = {} THEN <<>> ELSE SubSeq(s, SetMin(solid), SetMax(solid))

\* positions of the candidate columns that hold a non-empty cell
NonEmptyAt(row, hs) ==
    {k \in 1..Len(hs) : hs[k] \in DOMAIN row /\ row[hs[k]] # None /\ row[hs[k]].v # <<>>}

\* the first non-empty cell among the candidate columns, '' when there is none
FirstNonEmpty(row, hs) ==
    IF NonEmptyAt(row, hs) = {} THEN <<>> ELSE row[hs[SetMin(NonEmptyAt(row, hs))]].v

\* the pincode a row resolves to, and the record the documentation describes
ResolvedPin(row) == Trimmed(FirstNonEmpty(row, DocPinHeaders))

ExpectedRecord(row) ==
    [pincode    |-> ResolvedPin(row),
     officeName |-> Trimmed(FirstNonEmpty(row, DocOfficeHeaders)),
     district   |-> Trimmed(FirstNonEmpty(row, DocDistrictHeaders)),
     state      |-> Trimmed(FirstNonEmpty(row, DocStateHeaders))]

ExpectedEntry(b) ==
    [bank   |-> Trimmed(FirstNonEmpty(b, DocBankHeaders)),
     status |-> Trimmed(FirstNonEmpty(b, DocStatusHeaders))]

NoneText == <<"N", "o", "n", "e">>

\* rows the loop has gone through so far
Processed == 1..(i - 1)
BankProcessed == 1..(j - 1)

Written(name) == outfiles[name].st = "complete"

\* C1: every postal-code row whose pincode resolves to empty (no pincode
\* column, an empty cell, an all-whitespace cell) is left out of the array and
\* of the index: of N rows with K such rows the array holds N-K records, and no
\* record or key is empty or the placeholder 'None'.
C1_EmptyPincodeRowsExcluded ==
    /\ Len(records) = Cardinality({k \in Processed : ResolvedPin(rows[k]) # <<>>})
    /\ \A m \in 1..Len(records) : records[m].pincode \notin {<<>>, NoneText}
    /\ \A k \in DOMAIN index : k \notin {<<>>, NoneText}
    /\ Written("pincodes.json") =>
          Len(outfiles["pincodes.json"].data)
             = Len(rows) - Cardinality({k \in 1..Len(rows) : ResolvedPin(rows[k]) = <<>>})

\* the row's record is in the array and its key in the index; for the row the
\* loop has just gone through, it is the array's last entry and the key's value
RowIsStored(k) ==
    LET e == ExpectedRecord(rows[k])
    IN /\ \E m \in 1..Len(records) : records[m] = e
       /\ e.pincode \in DOMAIN index
       /\ (k = i - 1 /\ pc = "normalize_loop") =>
             /\ records[Len(records)] = e
             /\ index[e.pincode] = e
       /\ Written("pincodes.json") =>
             \E m \in 1..Len(outfiles["pincodes.json"].data) : outfiles["pincodes.json"].data[m] = e
       /\ Written("index.json") => e.pincode \in DOMAIN outfiles["index.json"].data

\* some supported pincode column of the row holds a cell that is not blank
HasPinUnderSomeHeader(row) ==
    \E k \in 1..Len(DocPinHeaders) :
        /\ DocPinHeaders[k] \in DOMAIN row
        /\ row[DocPinHeaders[k]] # None
        /\ Trimmed(row[DocPinHeaders[k]].v) # <<>>

\* C2 as stated: every row with a non-empty pincode under any one of the
\* supported header spellings yields the record of its trimmed first non-empty
\* cells, appended to the array and stored under its pincode in the index.
C2_AnyHeaderPincodeIsStored ==
    \A k \in Processed : HasPinUnderSomeHeader(rows[k]) => RowIsStored(k)

\* C2 amended: every row whose first non-empty pincode cell, in the documented
\* column order, is not all-whitespace yields the record of its trimmed first
\* non-empty cells, appended to the array and stored under its pincode in the
\* index.
C2_ResolvedPincodeIsStored ==
    \A k \in Processed : ResolvedPin(rows[k]) # <<>> => RowIsStored(k)

\* C2 witness: a row whose pincode sits under the last spelling, behind an
\* empty first one, with cells that need trimming, has just been stored
C2_Witness ==
    /\ pc = "normalize_loop" /\ i > 1
    /\ rows[i - 1] = PinEmptyThenLast @@ RestMixed
    /\ records[Len(records)] =
         [pincode |-> <<"2">>, officeName |-> <<"B">>, district |-> <<>>, state |-> <<"T">>]
    /\ index[<<"2">>] = records[Len(records)]

\* the rows gone through whose normalized pincode is k
RowsWithPin(k) == {m \in Processed : normalize_record(rows[m]).pincode = k}

RECURSIVE KeptRecords(_)
KeptRecords(n) ==
    IF n = 0 THEN <<>>
    ELSE IF normalize_record(rows[n]).pincode = <<>> THEN KeptRecords(n - 1)
         ELSE Append(KeptRecords(n - 1), normalize_record(rows[n]))

\* C3: the index maps each key to the normalized record of the last row with
\* that pincode; the array holds one record per retained row, duplicates
\* included, in row order; the index keys are the pincodes of the array and
\* are no more than its entries.  The written files hold the same.
C3_IndexLastWinsArrayKeepsAll ==
    /\ \A k \in DOMAIN index :
          /\ RowsWithPin(k) # {}
          /\ index[k] = normalize_record(rows[SetMax(RowsWithPin(k))])
    /\ records = KeptRecords(i - 1)
    /\ DOMAIN index = {records[m].pincode : m \in 1..Len(records)}
    /\ Cardinality(DOMAIN index) <= Len(records)
    /\ Written("pincodes.json") => outfiles["pincodes.json"].data = KeptRecords(Len(rows))
    /\ Written("index.json") => 
          /\ outfiles["index.json"].data = index
          /\ i = Len(rows) + 1

\* C3 witness: two rows with the same pincode and different fields were
\* written: both are in the array file, the index file holds the later one
C3_Witness ==
    /\ exit_status = 0
    /\ Written("pincodes.json") /\ Written("index.json")
    /\ Len(rows) = 2
    /\ Len(outfiles["pincodes.json"].data) = 2
    /\ DOMAIN outfiles["index.json"].data = {<<"1">>}
    /\ outfiles["pincodes.json"].data[1] # outfiles["pincodes.json"].data[2]
    /\ outfiles["index.json"].data[<<"1">>] = outfiles["pincodes.json"].data[2]

\* the pincode a bank row resolves to
BankResolvedPin(b) == Trimmed(FirstNonEmpty(b, DocPinHeaders))

RECURSIVE EntriesFor(_, _)
EntriesFor(k, n) ==
    IF n = 0 THEN <<>>
    ELSE IF BankResolvedPin(bank_rows[n]) = k
         THEN Append(EntriesFor(k, n - 1), ExpectedEntry(bank_rows[n]))
         ELSE EntriesFor(k, n - 1)

RECURSIVE SumLen(_, _)
SumLen(d, keys) ==
    IF keys = {} THEN 0
    ELSE LET k == CHOOSE x \in keys : TRUE IN Len(d[k]) + SumLen(d, keys \ {k})

\* C4: each key of the bank mapping holds exactly the {bank, status} entries of
\* the bank rows with that trimmed pincode, in row order, repeats included;
\* rows without a pincode go to no key, no key is empty, no value is empty, and
\* the entries number the rows with a non-empty pincode.  The written file
\* holds the same.
C4_BankMapGroupsRowsInOrder ==
    /\ DOMAIN bank_map = {BankResolvedPin(bank_rows[n]) : n \in BankProcessed} \ {<<>>}
    /\ \A k \in DOMAIN bank_map : bank_map[k] = EntriesFor(k, j - 1) /\ bank_map[k] # <<>>
    /\ SumLen(bank_map, DOMAIN bank_map)
         = Cardinality({n \in BankProcessed : BankResolvedPin(bank_rows[n]) # <<>>})
    /\ Written("bank_serviceability.json") =>
          /\ outfiles["bank_serviceability.json"].data = bank_map
          /\ j = Len(bank_rows) + 1

\* C4 witness: the written mapping holds two entries with the same bank name
\* under one key, from two rows, one of which needed trimming
C4_Witness ==
    /\ exit_status = 0
    /\ Written("bank_serviceability.json")
    /\ <<"1">> \in DOMAIN outfiles["bank_serviceability.json"].data
    /\ outfiles["bank_serviceability.json"].data[<<"1">>]
         = <<[bank |-> <<"X">>, status |-> <<"s">>], [bank |-> <<"X">>, status |-> <<"s">>]>>
    /\ Len(bank_rows) = 2 /\ bank_rows[1] # bank_rows[2]


Untouched(name) == outfiles[name] \in {Absent, Stale}

InSeq(x, sq) == \E k \in 1..Len(sq) : sq[k] = x

IsPrefix(a, b) == Len(a) <= Len(b) /\ \A k \in 1..Len(a) : a[k] = b[k]

\* C5: when the --pincsv path does not exist or cannot be read, the run ends
\* with a non-zero exit status and none of the three output files is created
\* or overwritten.
C5_UnreadablePinCsvWritesNothing ==
    ("--pincsv" \in argv /\ fs.pincsv.kind # "table") =>
        /\ \A n \in OutNames : Untouched(n)
        /\ exit_status # 0
        /\ pc = "exited" => exit_status = 1 /\ stderr = <<"Traceback">>
        /\ pc \in {"parse_args", "makedirs", "open_pincsv", "read_pincsv", "exited"}

\* C5 witness: a run on a missing postal-code file has ended with status 1 in
\* a directory whose earlier output files are still as they were
C5_Witness ==
    /\ "--pincsv" \in argv /\ fs.pincsv = Missing
    /\ pc = "exited" /\ exit_status = 1
    /\ stdout = <<"Reading pincodes CSV">>
    /\ \A n \in OutNames : outfiles[n] = Stale

\* C6: an error in any step is fatal: the run ends with a non-zero status, no
\* later step runs, nothing is retried, and status 0 is reached only with
\* every requested output file completely written.
C6_AnyErrorIsFatal ==
    /\ exit_status = 0 =>
          /\ pc = "exited" /\ stderr = <<>> /\ openFiles = {}
          /\ Written("pincodes.json") /\ Written("index.json")
          /\ "--bankcsv" \in argv => Written("bank_serviceability.json")
    /\ stderr # <<>> =>
          /\ pc = "exited" /\ exit_status \in {1, 2} /\ Len(stderr) = 1
          /\ ~InSeq("Done.", stdout)
    /\ \A a, b \in 1..Len(fileops) : a # b => fileops[a] # fileops[b]
    /\ ~Written("pincodes.json") => Untouched("index.json")
    /\ ~Written("index.json") => Untouched("bank_serviceability.json")
    /\ (pc = "exited" /\ outdir = "absent") => fileops = <<>> /\ stdout = <<>>
    /\ ("--pincsv" \in argv /\ fs.pincsv.kind # "table") => Untouched("pincodes.json")
    /\ ("--bankcsv" \in argv /\ fs.bankcsv.kind # "table") => Untouched("bank_serviceability.json")

\* C6 witness: the write of index.json failed after pincodes.json was written;
\* the run ended with status 1 and the bank step never ran
C6_Witness ==
    /\ pc = "exited" /\ exit_status = 1
    /\ "--bankcsv" \in argv
    /\ Written("pincodes.json")
    /\ outfiles["index.json"] = Truncated
    /\ outfiles["bank_serviceability.json"] = Stale
    /\ bank_rows = <<>>

\* C7: without --pincsv the run reports a usage error and exits non-zero
\* before any processing: the output directory is not created, no input is
\* opened and no output file is written.
C7_UsageErrorBeforeFilesystem ==
    /\ []("--pincsv" \notin argv =>
             /\ pc \in {"parse_args", "exited"}
             /\ pc = "exited" => exit_status = 2 /\ stderr = <<"usage">>
             /\ fileops = <<>> /\ openFiles = {} /\ stdout = <<>>
             /\ \A n \in OutNames : Untouched(n))
    /\ [][("--pincsv" \notin argv) => UNCHANGED <<outdir, outfiles, fs>>]_vars

\* C7 witness: a run without --pincsv has ended with the usage error and the
\* output directory still does not exist
C7_Witness ==
    /\ "--pincsv" \notin argv
    /\ pc = "exited" /\ exit_status = 2 /\ stderr = <<"usage">>
    /\ outdir = "absent"

BankFiles == {"bankcsv", "bank_serviceability.json"}

PinOps == << <<"open", "pincsv">>, <<"close", "pincsv">>,
             <<"open", "pincodes.json">>, <<"close", "pincodes.json">>,
             <<"open", "index.json">>, <<"close", "index.json">> >>

BankOps == << <<"open", "bankcsv">>, <<"close", "bankcsv">>,
              <<"open", "bank_serviceability.json">>, <<"close", "bank_serviceability.json">> >>

\* C8: without --bankcsv no bank table is read and bank_serviceability.json is
\* neither created nor modified, and a run that meets no error ends with exit
\* status 0 having written exactly pincodes.json and index.json.
C8_NoBankOutputWithoutBankCsv ==
    "--bankcsv" \notin argv =>
        /\ Untouched("bank_serviceability.json")
        /\ \A k \in 1..Len(fileops) : fileops[k][2] \notin BankFiles
        /\ openFiles \cap BankFiles = {}
        /\ ~InSeq("Reading bank serviceability CSV", stdout)
        /\ bank_rows = <<>> /\ bank_map = EmptyDict
        /\ (pc = "exited" /\ "--pincsv" \in argv /\ stderr = <<>>) =>
              /\ exit_status = 0
              /\ fileops = PinOps
              /\ Written("pincodes.json") /\ Written("index.json")

\* C8 witness: a run without --bankcsv has ended with status 0 and an earlier
\* bank_serviceability.json is still as it was
C8_Witness ==
    /\ "--bankcsv" \notin argv
    /\ pc = "exited" /\ exit_status = 0
    /\ Written("pincodes.json") /\ Written("index.json")
    /\ outfiles["bank_serviceability.json"] = Stale

CanonicalOps == PinOps \o (IF "--bankcsv" \in argv THEN BankOps ELSE <<>>)

\* files opened and not yet closed, by the history of file operations
OpenByHistory ==
    {f \in {"pincsv", "bankcsv"} \cup OutNames :
        InSeq(<<"open", f>>, fileops) /\ ~InSeq(<<"close", f>>, fileops)}

\* C9: the file operations occur in the fixed order read postal-code table,
\* write pincodes.json, write index.json, then with --bankcsv read bank table,
\* write bank_serviceability.json; each file is closed before the next is
\* opened, so at most one is open; no output file is written before the
\* postal-code table is read; 'Done.' comes after the last requested file is
\* written and closed.
C9_FileStepsInFixedOrder ==
    /\ IsPrefix(fileops, CanonicalOps)
    /\ openFiles = OpenByHistory
    /\ Cardinality(openFiles) <= 1
    /\ (\E n \in OutNames : ~Untouched(n)) =>
          /\ InSeq(<<"close", "pincsv">>, fileops)
          /\ rows = fs.pincsv.rows /\ i = Len(rows) + 1
    /\ InSeq("Done.", stdout) =>
          /\ fileops = CanonicalOps /\ openFiles = {}
          /\ \A n \in OutNames : (n # "bank_serviceability.json" \/ "--bankcsv" \in argv) => Written(n)
          /\ stdout[Len(stdout)] = "Done."

\* C9 witness: the bank output file is the one open file, after the four
\* earlier files were each opened and closed
C9_Witness ==
    /\ pc = "dump_bank_serviceability.json"
    /\ openFiles = {"bank_serviceability.json"}
    /\ Len(fileops) = 9
    /\ Len(bank_rows) > 0

\* C10: decrypt_pdf.py exits 0 exactly when open and save both returned
\* without raising; otherwise it exits 1 after one diagnostic; 'SUCCESS' is
\* printed only after the save; with a wrong argument count or a missing input
\* file the library is never called.
C10_PdfExitStatus ==
    /\ pdf_pc = "exited" =>
          /\ pdf_exit \in {0, 1}
          /\ pdf_exit = 0 <=> pdf_calls = << <<"open", "ok">>, <<"save", "ok">> >>
          /\ pdf_exit = 1 => Len(pdf_stdout) = 1 /\ pdf_stdout[1] # "SUCCESS"
          /\ pdf_exit = 0 => pdf_stdout = <<"SUCCESS">>
    /\ InSeq("SUCCESS", pdf_stdout) =>
          /\ InSeq(<<"save", "ok">>, pdf_calls)
          /\ pdf_output = Complete("decrypted")
    /\ (pdf_argc # 4 \/ ~pdf_input_exists \/ ~pdf_installed) => pdf_calls = <<>>
    /\ pdf_pc # "exited" => pdf_exit = -1

\* C10 witness: a run whose save raised after a successful open has exited
\* with status 1
C10_Witness ==
    /\ pdf_pc = "exited" /\ pdf_exit = 1
    /\ pdf_calls = << <<"open", "ok">>, <<"save", "Exception">> >>
    /\ pdf_stdout = <<"ERROR: exception">>

====
